---- MODULE Spec2Model ----
(***************************************************************************)
(* The plugin selection of my-custom-caddy.                                *)
(*                                                                         *)
(* tools.go is a build-constrained file of package main whose only content *)
(* is a block of blank imports; go.mod pins the module versions and holds  *)
(* one replace directive.  The model follows one build of that file and    *)
(* one run of the binary it yields: the build constraint is evaluated, go  *)
(* .mod is loaded into a build list (replace applied), every blank import  *)
(* is linked, each linked package is initialised (its registration side    *)
(* effect), and only then does the host's entry point start serving.  The  *)
(* entry point itself belongs to the host program, not to this repository. *)
(***************************************************************************)
EXTENDS Naturals, Sequences, FiniteSets

VARIABLES
    phase,       \* "source", "built", "init", "serving", "failed"
    tags,        \* the build tags the build was invoked with
    buildList,   \* module path -> [path, version] whose source is compiled
    linked,      \* import paths linked into the binary
    registered,  \* import paths whose registration side effect has fired
    initCount,   \* import path -> number of times its initialisation ran
    lookups,     \* registry look-ups made while serving
    found        \* names a look-up has found in the registry

vars ==
    <<phase, tags, buildList, linked, registered, initCount, lookups, found>>

\* Look-ups explored in the serving phase.
MaxLookups == 2

(***************************************************************************)
(* tools.go                                                                *)
(***************************************************************************)

\* //go:build tools
BuildTag == "tools"

\* Tags a build may be invoked with.
KnownTags == {BuildTag, "netgo"}

\* import ( _ "..." ... ), in file order
ImportBlock ==
    << "github.com/caddyserver/caddy/v2",
       "github.com/caddyserver/forwardproxy",
       "github.com/imgk/caddy-trojan",
       "github.com/mholt/caddy-l4",
       "github.com/fvbommel/caddy-combine-ip-ranges",
       "github.com/LeenHawk/caddy-edgeone-ip",
       "github.com/monobilisim/caddy-ip-list",
       "github.com/WeidiDeng/caddy-cloudflare-ip",
       "github.com/xcaddyplugins/caddy-trusted-cloudfront" >>

Imports == { ImportBlock[i] : i \in DOMAIN ImportBlock }

(***************************************************************************)
(* go.mod                                                                  *)
(***************************************************************************)

\* require ( ... ), the block of direct requirements: path, version
DirectRequire ==
    << <<"github.com/LeenHawk/caddy-edgeone-ip", "v0.1.1">>,
       <<"github.com/WeidiDeng/caddy-cloudflare-ip", "v0.0.0-20231130002422-f53b62aa13cb">>,
       <<"github.com/caddy-dns/tencentcloud", "v0.4.3">>,
       <<"github.com/caddyserver/caddy/v2", "v2.10.2">>,
       <<"github.com/caddyserver/forwardproxy", "v0.0.0-20251013200746-bb364cc53204">>,
       <<"github.com/caddyserver/jsonc-adapter", "v0.0.0-20200325004025-825ee096306c">>,
       <<"github.com/fvbommel/caddy-combine-ip-ranges", "v0.0.1">>,
       <<"github.com/greenpau/caddy-security", "v1.1.31">>,
       <<"github.com/imgk/caddy-trojan", "v0.2.10-2">>,
       <<"github.com/lanrat/caddy-dynamic-remoteip", "v0.0.0-20231007025615-f72ed4fc7b9c">>,
       <<"github.com/mholt/caddy-events-exec", "v0.1.0">>,
       <<"github.com/mholt/caddy-l4", "v0.0.0-20251209130418-1a3490ef786a">>,
       <<"github.com/mholt/caddy-ratelimit", "v0.1.0">>,
       <<"github.com/mholt/caddy-webdav", "v0.0.0-20250805175825-7a5c90d8bf90">>,
       <<"github.com/monobilisim/caddy-ip-list", "v0.0.0-20250818180736-cd5c45325ade">>,
       <<"github.com/okrc/caddy-uploadcert-tencentcloud", "v0.1.2">>,
       <<"github.com/porech/caddy-maxmind-geolocation", "v1.0.1">>,
       <<"github.com/tuzzmaniandevil/caddy-dynamic-clientip", "v1.0.5">>,
       <<"github.com/xcaddyplugins/caddy-trusted-cloudfront", "v0.0.0-20240604042247-0a0864e80f1c">> >>

\* replace old => new version
Replace ==
    << <<"github.com/caddyserver/forwardproxy",
         "github.com/klzgrad/forwardproxy",
         "v0.0.0-20250118002110-d62c80d3dd2c">> >>

RequiredPaths == { DirectRequire[i][1] : i \in DOMAIN DirectRequire }

ReplacedPaths == { Replace[i][1] : i \in DOMAIN Replace }

ReplacementPaths == { Replace[i][2] : i \in DOMAIN Replace }

\* Every module path go.mod pins a version for: in a require line, or as the
\* target of a replace line.
LockfilePaths == RequiredPaths \cup ReplacementPaths

\* The version the require block pins for path p.
RequiredVersion(p) ==
    LET i == CHOOSE k \in DOMAIN DirectRequire : DirectRequire[k][1] = p
    IN  DirectRequire[i][2]

\* The replacement of path p, when a replace line names p.
Replacement(p) ==
    LET i == CHOOSE k \in DOMAIN Replace : Replace[k][1] = p
    IN  [path |-> Replace[i][2], version |-> Replace[i][3]]

\* Resolve with the replace directive left unapplied.
ResolveIgnoringReplace(p) == [path |-> p, version |-> RequiredVersion(p)]

\* The source compiled for module path p: the replacement when one is
\* declared, the required version of p itself otherwise.
Resolve(p) ==
    IF p \in ReplacedPaths
        THEN Replacement(p)
        ELSE [path |-> p, version |-> RequiredVersion(p)]

\* go.mod as the build loads it.
LoadModFile == [p \in RequiredPaths |-> Resolve(p)]

(***************************************************************************)
(* One build and one run                                                   *)
(***************************************************************************)

\* Every path either file names.
Universe == Imports \cup LockfilePaths

\* PackagesToLink taken from the require block instead of the import block.
LinkAllRequired == RequiredPaths

\* The packages the blank imports of tools.go pull into the binary.
PackagesToLink == Imports

Init ==
    /\ phase = "source"
    /\ tags = {}
    /\ buildList = << >>
    /\ linked = {}
    /\ registered = {}
    /\ initCount = [p \in Universe |-> 0]
    /\ lookups = 0
    /\ found = {}

\* The build: tools.go takes part only under its build constraint; a build
\* that excludes it has no Go file left, and an import no requirement
\* provides stops the build as well.
Build(t) ==
    /\ phase = "source"
    /\ tags' = t
    /\ IF BuildTag \in t /\ PackagesToLink \subseteq RequiredPaths
          THEN /\ phase' = "built"
               /\ buildList' = LoadModFile
               /\ linked' = PackagesToLink
          ELSE /\ phase' = "failed"
               /\ UNCHANGED <<buildList, linked>>
    /\ UNCHANGED <<registered, initCount, lookups, found>>

\* Process start: package initialisation begins.
Start ==
    /\ phase = "built"
    /\ phase' = "init"
    /\ UNCHANGED
           <<tags, buildList, linked, registered, initCount, lookups, found>>

\* InitPackage without the once-per-package guard.
InitPackageAgain(p) ==
    /\ phase = "init"
    /\ p \in linked
    /\ initCount[p] < 3
    /\ registered' = registered \cup {p}
    /\ initCount' = [initCount EXCEPT ![p] = @ + 1]
    /\ UNCHANGED <<phase, tags, buildList, linked, lookups, found>>

\* The side effect of  _ "p" : p is initialised, once, and registers.
InitPackage(p) ==
    /\ phase = "init"
    /\ p \in linked
    /\ p \notin registered
    /\ registered' = registered \cup {p}
    /\ initCount' = [initCount EXCEPT ![p] = @ + 1]
    /\ UNCHANGED <<phase, tags, buildList, linked, lookups, found>>

\* Serve without waiting for initialisation to complete.
ServeEarly ==
    /\ phase = "init"
    /\ phase' = "serving"
    /\ UNCHANGED
           <<tags, buildList, linked, registered, initCount, lookups, found>>

\* The entry point runs once every linked package is initialised.
Serve ==
    /\ phase = "init"
    /\ registered = linked
    /\ phase' = "serving"
    /\ UNCHANGED
           <<tags, buildList, linked, registered, initCount, lookups, found>>

\* While serving, the configuration looks registry entries up by name.
Lookup(p) ==
    /\ phase = "serving"
    /\ lookups < MaxLookups
    /\ lookups' = lookups + 1
    /\ found' = found \cup ({p} \cap registered)
    /\ UNCHANGED <<phase, tags, buildList, linked, registered, initCount>>

Next ==
    \/ \E t \in SUBSET KnownTags : Build(t)
    \/ Start
    \/ \E p \in Universe : InitPackage(p)
    \/ Serve
    \/ \E p \in Universe : Lookup(p)

Spec == Init /\ [][Next]_vars

TypeOK ==
    /\ phase \in {"source", "built", "init", "serving", "failed"}
    /\ tags \subseteq KnownTags
    /\ linked \subseteq Universe
    /\ registered \subseteq linked
    /\ initCount \in [Universe -> 0..3]
    /\ lookups \in 0..MaxLookups
    /\ found \subseteq registered

(***************************************************************************)
(* Well-formedness of the two files                                        *)
(***************************************************************************)

\* No import path occurs twice in the import block of tools.go.
ImportsDistinct ==
    \A i, j \in DOMAIN ImportBlock :
        ImportBlock[i] = ImportBlock[j] => i = j

\* No module path occurs twice in the direct require block of go.mod, and
\* every import of tools.go has a requirement.
RequireDistinct ==
    /\ \A i, j \in DOMAIN DirectRequire :
           DirectRequire[i][1] = DirectRequire[j][1] => i = j
    /\ Imports \subseteq RequiredPaths

(***************************************************************************)
(* Properties                                                              *)
(***************************************************************************)

Running == phase \in {"built", "init", "serving"}

C2_RegisteredOnceAndForever ==
    /\ [][\A p \in Universe :
            /\ p \in registered => p \in registered'
            /\ initCount'[p] >= initCount[p]
            /\ initCount'[p] <= 1
            /\ initCount'[p] # initCount[p] => phase = "init"]_vars
    /\ [](phase = "serving" =>
            \A p \in linked : initCount[p] = 1 /\ p \in registered)

\* C2 witness: the process has served all its look-ups and every listed
\* package was initialised once.
C2_Witness ==
    /\ phase = "serving"
    /\ lookups = MaxLookups
    /\ \A p \in Imports : initCount[p] = 1 /\ p \in registered

C7_RedirectKeepsIdentifier ==
    Running =>
        \A i \in DOMAIN Replace :
            LET old == Replace[i][1]
                new == Replace[i][2]
                rev == Replace[i][3]
            IN  /\ buildList[old] = [path |-> new, version |-> rev]
                /\ buildList[old].path # old
                /\ buildList[old].version # RequiredVersion(old)
                /\ old \in RequiredPaths
                /\ new \notin RequiredPaths
                /\ new \notin linked \cup registered
                /\ phase = "serving" => old \in linked \cap registered

\* C7 witness: the binary serves, forwardproxy is registered under its
\* imported path and was compiled from the fork.
C7_Witness ==
    /\ phase = "serving"
    /\ "github.com/caddyserver/forwardproxy" \in registered
    /\ buildList["github.com/caddyserver/forwardproxy"].path
           = "github.com/klzgrad/forwardproxy"

\* C7 as stated: consumers receive the redirect target, the lockfile
\* contains the target and not the original identifier, and the package
\* registers under the original identifier.
C7_LockfileOmitsOriginal ==
    Running =>
        \A i \in DOMAIN Replace :
            LET old == Replace[i][1]
                new == Replace[i][2]
                rev == Replace[i][3]
            IN  /\ buildList[old] = [path |-> new, version |-> rev]
                /\ new \in LockfilePaths
                /\ old \notin LockfilePaths
                /\ phase = "serving" => old \in linked \cap registered

====
